---- MODULE Spec2Model ----
(***************************************************************************)
(* Model of shmem-ipc's src/mem.rs: memory maps over a sealable memfd.     *)
(*                                                                         *)
(* The state is one memfd as the kernel keeps it (byte length, bytes, seal *)
(* set, live mappings) and the calls in flight on it.  mem.rs keeps no     *)
(* state of its own, and two memfds share nothing, so one memfd is         *)
(* followed from its creation on.  Callers holding the descriptor run      *)
(* read_memfd and raw_memfd; write_once and write_once_custom create the   *)
(* memfd.  Every primitive those functions call (seals, add_seal,          *)
(* add_seals, create, set_len, the three maps, drop) is one atomic step,   *)
(* so the calls of several holders interleave between primitives exactly   *)
(* as their system calls do.                                               *)
(***************************************************************************)
EXTENDS Integers, Sequences, FiniteSets, Bags, TLC

\* ---------------------------------------------------------------- bounds
MaxCalls == 2        \* calls in flight at once (holders inside mem.rs)
MaxSize == 2         \* largest size passed to set_len / write_once
MaxMaps == 2         \* live mappings handed out to callers at once

Sizes == 0..MaxSize
\* Byte values: zero (set_len's fill) and a nonzero one (the test stores 100).
Bytes == {0, 100}
\* raw_memfd's len: a single byte and the largest file's length, so that it
\* is below, at and above the file's length.
Lens == {1, MaxSize}

\* mfd::FileSeal
SealGrow == "SealGrow"
SealShrink == "SealShrink"
SealSeal == "SealSeal"
SealWrite == "SealWrite"
FileSeal == {SealGrow, SealShrink, SealSeal, SealWrite}

VARIABLES
    fd,      \* "none" (no memfd), "building" (owned by the running
             \* write_once_custom, not returned yet), "open" (held by callers)
    seals,   \* the memfd's seal set, as memfd.seals() reports it
    size,    \* the file's byte length
    bytes,   \* the file's contents, a sequence of size bytes
    maps,    \* bag of live mappings [kind, len]
    calls,   \* bag of calls in flight, each with the primitive it makes next
    origin,  \* how the memfd was created: the function, its size and
             \* allow_sealing, and write_once's initializer f
    last     \* the primitive step that led to this state and what it returned

vars == <<fd, seals, size, bytes, maps, calls, origin, last>>

\* ------------------------------------------------------------- helpers
Zeroes(n) == [i \in 1..n |-> 0]

\* The initializers: each stores into some offsets of the buffer it is handed
\* and leaves the others alone (x[2049] = 100 in the test).
Inits(n) == UNION {[D -> Bytes] : D \in SUBSET (1..n)}

\* A call in flight: op, the primitive it makes next (step), the seal being
\* verified, len (write_once_custom's size), the builder's seals and f, and
\* the seals its verify_seal calls before the current one put into the seal
\* set (added).
Call(op, step, seal, len) ==
    [op |-> op, step |-> step, seal |-> seal, len |-> len, fseals |-> {}, f |-> <<>>,
     added |-> {}]

NoOrigin == [via |-> "none", size |-> 0, allow |-> FALSE, f |-> <<>>]

\* What a step did: the function it belongs to (op), the primitive (step), the
\* seal it was about, what the function returned by it (ret: "" while the call
\* goes on), the primitive that failed (err), the length of the mapping it
\* created (len); and, filled in by the steps they concern, raw_memfd's len
\* argument (arg), what verify_seal returned by it (vs: "" when it goes on
\* to add_seal), and, when read_memfd or raw_memfd returns an error from
\* a later verify_seal, the seals the call had put into the seal set (added).
Ev(op, step, seal, ret, err, len) ==
    [op |-> op, step |-> step, seal |-> seal, ret |-> ret, err |-> err, len |-> len,
     arg |-> 0, vs |-> "", added |-> {}]

\* Mapping kinds: "ro" (Mmap from map_copy_read_only: private, read-only),
\* "raw" (MmapRaw from map_raw: shared, writable), "mut" (MmapMut from map_mut:
\* shared, writable).
Mapping(kind, len) == [kind |-> kind, len |-> len]
Live(kind) == {m \in BagToSet(maps) : m.kind = kind}
WritableLive == Live("raw") \cup Live("mut")
Handed == Live("ro") \cup Live("raw")
NumHanded == BagCardinality(maps) - Cardinality(Live("mut"))
InFlight == BagToSet(calls)
One(x) == SetToBag({x})

\* ------------------------------------------------- the kernel's rules
\* Mutant: F_SEAL_WRITE is granted although a writable mapping is live.
AddRefused_sealOnly(S) == SealSeal \in seals

\* Mutant: F_ADD_SEALS is granted on a frozen seal set.
AddRefused_busyOnly(S) == SealWrite \in S \ seals /\ WritableLive # {}

\* F_ADD_SEALS is refused once F_SEAL_SEAL is set (EPERM), and F_SEAL_WRITE is
\* refused while a shared writable mapping of the file is live (EBUSY).
AddRefused(S) ==
    \/ SealSeal \in seals
    \/ SealWrite \in S \ seals /\ WritableLive # {}

\* Mutant: a writable mapping is granted on a write-sealed file.
MapWritableRefused_never == FALSE

\* mmap(PROT_WRITE, MAP_SHARED) is refused on a file sealed F_SEAL_WRITE (EPERM).
MapWritableRefused == SealWrite \in seals

\* ftruncate: new bytes read as zero; F_SEAL_GROW / F_SEAL_SHRINK refuse.
Truncated(b, n) == [i \in 1..n |-> IF i <= Len(b) THEN b[i] ELSE 0]
TruncateRefused(n) ==
    \/ n > size /\ SealGrow \in seals
    \/ n < size /\ SealShrink \in seals

\* The memfd is closed with no descriptor left: as before creation.
Closed ==
    /\ fd' = "none"
    /\ seals' = {}
    /\ size' = 0
    /\ bytes' = <<>>
    /\ origin' = NoOrigin

Init ==
    /\ fd = "none"
    /\ seals = {}
    /\ size = 0
    /\ bytes = <<>>
    /\ maps = EmptyBag
    /\ calls = EmptyBag
    /\ origin = NoOrigin
    /\ last = Ev("init", "", "", "", "", 0)

\* ------------------------------------------------------------ verify_seal
\* Mutant: read_memfd maps right after verify_seal(SealShrink).
AfterVerify_skipWrite(c) == [c EXCEPT !.step = "map", !.seal = ""]

\* Mutant: raw_memfd verifies SealWrite too, as read_memfd does.
AfterVerify_rawWrite(c) ==
    IF c.seal = SealShrink
    THEN [c EXCEPT !.step = "seals", !.seal = SealWrite]
    ELSE [c EXCEPT !.step = "map", !.seal = ""]

\* What the caller does once verify_seal returned Ok(()): read_memfd goes on to
\* verify_seal(SealWrite) after SealShrink and to the map after SealWrite;
\* raw_memfd goes to the map after SealShrink.
AfterVerify(c) ==
    IF c.op = "read_memfd" /\ c.seal = SealShrink
    THEN [c EXCEPT !.step = "seals", !.seal = SealWrite]
    ELSE [c EXCEPT !.step = "map", !.seal = ""]

\* Mutant: verify_seal only verifies: an absent seal is an error, never added.
SealsQuery_verifyOnly(rest, c, fault) ==
    /\ IF fault \/ c.seal \notin seals
       THEN /\ calls' = rest
            /\ last' = [Ev(c.op, "seals", c.seal, "Err",
                           IF fault THEN "seals" ELSE "absent", 0) EXCEPT !.vs = "Err"]
       ELSE /\ calls' = rest (+) One(AfterVerify(c))
            /\ last' = [Ev(c.op, "seals", c.seal, "", "", 0) EXCEPT !.vs = "Ok"]
    /\ UNCHANGED <<fd, seals, size, bytes, maps, origin>>

\* Mutant: verify_seal adds the seal without looking at the seals present.
SealsQuery_alwaysAdd(rest, c, fault) ==
    /\ IF fault
       THEN /\ calls' = rest
            /\ last' = [Ev(c.op, "seals", c.seal, "Err", "seals", 0)
                          EXCEPT !.vs = "Err"]
       ELSE /\ calls' = rest (+) One([c EXCEPT !.step = "add_seal"])
            /\ last' = Ev(c.op, "seals", c.seal, "", "", 0)
    /\ UNCHANGED <<fd, seals, size, bytes, maps, origin>>

\* Mutant: verify_seal takes a frozen seal set for a verified one.
SealsQuery_frozenOk(rest, c, fault) ==
    /\ IF fault
       THEN /\ calls' = rest
            /\ last' = [Ev(c.op, "seals", c.seal, "Err", "seals", 0)
                          EXCEPT !.vs = "Err", !.added = c.added]
       ELSE IF c.seal \in seals \/ SealSeal \in seals
       THEN /\ calls' = rest (+) One(AfterVerify(c))
            /\ last' = [Ev(c.op, "seals", c.seal, "", "", 0) EXCEPT !.vs = "Ok"]
       ELSE /\ calls' = rest (+) One([c EXCEPT !.step = "add_seal"])
            /\ last' = Ev(c.op, "seals", c.seal, "", "", 0)
    /\ UNCHANGED <<fd, seals, size, bytes, maps, origin>>

\* let seals = memfd.seals()?; if seals.contains(&seal) { return Ok(()); }
\* made by call c, the other calls in flight being rest.
SealsQuery(rest, c, fault) ==
    /\ IF fault
       THEN /\ calls' = rest
            /\ last' = [Ev(c.op, "seals", c.seal, "Err", "seals", 0)
                          EXCEPT !.vs = "Err", !.added = c.added]
       ELSE IF c.seal \in seals
       THEN /\ calls' = rest (+) One(AfterVerify(c))
            /\ last' = [Ev(c.op, "seals", c.seal, "", "", 0) EXCEPT !.vs = "Ok"]
       ELSE /\ calls' = rest (+) One([c EXCEPT !.step = "add_seal"])
            /\ last' = Ev(c.op, "seals", c.seal, "", "", 0)
    /\ UNCHANGED <<fd, seals, size, bytes, maps, origin>>

\* verify_seal(&memfd, SealWrite) of a read_memfd in flight, up to the query.
verify_seal_query(c, fault) ==
    /\ c \in InFlight /\ c.step = "seals"
    /\ SealsQuery(calls (-) One(c), c, fault)

\* Mutant: add_seal's error is dropped (no `?`), verify_seal returns Ok(()).
verify_seal_add_unchecked(c) ==
    /\ c \in InFlight /\ c.step = "add_seal"
    /\ seals' = IF AddRefused({c.seal}) THEN seals ELSE seals \cup {c.seal}
    /\ calls' = (calls (-) One(c)) (+) One(AfterVerify(c))
    /\ last' = [Ev(c.op, "add_seal", c.seal, "", "", 0) EXCEPT !.vs = "Ok"]
    /\ UNCHANGED <<fd, size, bytes, maps, origin>>

\* Mutant: add_seal adds SealSeal along with the seal asked for.
verify_seal_add_freeze(c) ==
    /\ c \in InFlight /\ c.step = "add_seal"
    /\ IF AddRefused({c.seal})
       THEN /\ calls' = calls (-) One(c)
            /\ last' = [Ev(c.op, "add_seal", c.seal, "Err", "add_seal", 0)
                          EXCEPT !.vs = "Err"]
            /\ UNCHANGED seals
       ELSE /\ seals' = seals \cup {c.seal, SealSeal}
            /\ calls' = (calls (-) One(c)) (+) One(AfterVerify(c))
            /\ last' = [Ev(c.op, "add_seal", c.seal, "", "", 0) EXCEPT !.vs = "Ok"]
    /\ UNCHANGED <<fd, size, bytes, maps, origin>>

\* The call once its add_seal was granted: it notes the seal it put into the
\* seal set for as long as it has another seal to verify.
Added(c) ==
    IF AfterVerify(c).step = "seals"
    THEN [AfterVerify(c) EXCEPT !.added = @ \cup ({c.seal} \ seals)]
    ELSE AfterVerify(c)

\* memfd.add_seal(seal)?; Ok(())
verify_seal_add(c) ==
    /\ c \in InFlight /\ c.step = "add_seal"
    /\ IF AddRefused({c.seal})
       THEN /\ calls' = calls (-) One(c)
            /\ last' = [Ev(c.op, "add_seal", c.seal, "Err", "add_seal", 0)
                          EXCEPT !.vs = "Err", !.added = c.added]
            /\ UNCHANGED seals
       ELSE /\ seals' = seals \cup {c.seal}
            /\ calls' = (calls (-) One(c))
                           (+) One(Added(c))
            /\ last' = [Ev(c.op, "add_seal", c.seal, "", "", 0) EXCEPT !.vs = "Ok"]
    /\ UNCHANGED <<fd, size, bytes, maps, origin>>

\* ------------------------------------------------------------- read_memfd
\* Mutant: read_memfd starts with verify_seal(&memfd, SealWrite).
read_memfd_writeFirst(fault) ==
    /\ fd = "open" /\ BagCardinality(calls) < MaxCalls
    /\ SealsQuery(calls, Call("read_memfd", "seals", SealWrite, 0), fault)

\* A holder calls read_memfd: verify_seal(&memfd, SealShrink), up to the query.
read_memfd(fault) ==
    /\ fd = "open" /\ BagCardinality(calls) < MaxCalls
    /\ SealsQuery(calls, Call("read_memfd", "seals", SealShrink, 0), fault)

\* MmapOptions::new().map_copy_read_only(memfd.as_file()): a private read-only
\* mapping of the file's whole length.
map_copy_read_only(c, fault) ==
    /\ c \in InFlight /\ c.op = "read_memfd" /\ c.step = "map"
    /\ IF fault
       THEN /\ last' = Ev(c.op, "map", "", "Err", "map", 0)
            /\ UNCHANGED maps
       ELSE /\ NumHanded < MaxMaps
            /\ maps' = maps (+) One(Mapping("ro", size))
            /\ last' = Ev(c.op, "map", "", "Ok", "", size)
    /\ calls' = calls (-) One(c)
    /\ UNCHANGED <<fd, seals, size, bytes, origin>>

\* -------------------------------------------------------------- raw_memfd
\* Mutant: raw_memfd verifies SealGrow instead of SealShrink.
raw_memfd_grow(fault) ==
    /\ fd = "open" /\ BagCardinality(calls) < MaxCalls
    /\ SealsQuery(calls, Call("raw_memfd", "seals", SealGrow, 0), fault)

\* A holder calls raw_memfd: verify_seal(&memfd, SealShrink), up to the query.
raw_memfd(fault) ==
    /\ fd = "open" /\ BagCardinality(calls) < MaxCalls
    /\ SealsQuery(calls, Call("raw_memfd", "seals", SealShrink, 0), fault)

\* Mutant: map_raw maps the file's length, as the other two maps do.
RawLen_file(len) == size

\* The length of the mapping map_raw makes for .len(len).
RawLen(len) == len

\* MmapOptions::new().len(len).map_raw(memfd.as_file()): a shared writable
\* mapping of len bytes.  len is raw_memfd's argument; nothing reads it before
\* this step, so it is drawn here.
map_raw(c, len, fault) ==
    /\ c \in InFlight /\ c.op = "raw_memfd" /\ c.step = "map"
    /\ IF fault \/ MapWritableRefused
       THEN /\ last' = [Ev(c.op, "map", "", "Err", "map", 0) EXCEPT !.arg = len]
            /\ UNCHANGED maps
       ELSE /\ NumHanded < MaxMaps
            /\ maps' = maps (+) One(Mapping("raw", RawLen(len)))
            /\ last' = [Ev(c.op, "map", "", "Ok", "", RawLen(len)) EXCEPT !.arg = len]
    /\ calls' = calls (-) One(c)
    /\ UNCHANGED <<fd, seals, size, bytes, origin>>

\* ------------------------------------------------------ write_once_custom
\* The running builder: op "write_once_custom", len its size argument, fseals
\* its seals argument, f its initializer.
Builder(c) == c \in InFlight /\ c.op = "write_once_custom"

\* The builder fails at a `?`: memfd (and m, if mapped) go out of scope, and the
\* memfd, which nobody else holds, is gone.
Aborts(c, step) ==
    /\ Closed
    /\ maps' = EmptyBag
    /\ calls' = calls (-) One(c)
    /\ last' = Ev(c.op, step, "", "Err", step, 0)

\* Mutant: the memfd is the caller's, who holds it while the builder runs.
create_shared(via, sz, allow, fs, f, fault) ==
    /\ fd = "none" /\ BagCardinality(calls) < MaxCalls
    /\ ~fault
    /\ fd' = "open"
    /\ seals' = IF allow THEN {} ELSE {SealSeal}
    /\ size' = 0
    /\ bytes' = <<>>
    /\ origin' = [via |-> via, size |-> sz, allow |-> allow,
                  f |-> IF via = "write_once" THEN f ELSE <<>>]
    /\ calls' = calls (+) One([Call("write_once_custom", "set_len", "", sz)
                                 EXCEPT !.fseals = fs, !.f = f])
    /\ last' = Ev("write_once_custom", "create", "", "", "", 0)
    /\ UNCHANGED maps

\* let memfd = memfd_options.create(name)?;  A memfd made without allow_sealing
\* starts with F_SEAL_SEAL set.
create(via, sz, allow, fs, f, fault) ==
    /\ fd = "none" /\ BagCardinality(calls) < MaxCalls
    /\ IF fault
       THEN /\ last' = Ev("write_once_custom", "create", "", "Err", "create", 0)
            /\ UNCHANGED <<fd, seals, size, bytes, maps, calls, origin>>
       ELSE /\ fd' = "building"
            /\ seals' = IF allow THEN {} ELSE {SealSeal}
            /\ size' = 0
            /\ bytes' = <<>>
            /\ origin' = [via |-> via, size |-> sz, allow |-> allow,
                          f |-> IF via = "write_once" THEN f ELSE <<>>]
            /\ calls' = calls (+) One([Call("write_once_custom", "set_len", "", sz)
                                         EXCEPT !.fseals = fs, !.f = f])
            /\ last' = Ev("write_once_custom", "create", "", "", "", 0)
            /\ UNCHANGED maps

\* write_once_custom(size, name, memfd_options, seals, f)
write_once_custom(sz, allow, fs, f, fault) ==
    create("write_once_custom", sz, allow, fs, f, fault)

\* Mutant: write_once leaves SealGrow out.
write_once_noGrow(sz, f, fault) ==
    create("write_once", sz, TRUE, {SealShrink, SealSeal, SealWrite}, f, fault)

\* write_once(size, name, f): allow_sealing(true) and all four seals.
write_once(sz, f, fault) ==
    create("write_once", sz, TRUE, {SealGrow, SealShrink, SealSeal, SealWrite},
           f, fault)

\* Mutant: set_len's error is dropped (no `?`), the builder goes on.
set_len_unchecked(c, fault) ==
    /\ Builder(c) /\ c.step = "set_len"
    /\ IF fault \/ TruncateRefused(c.len)
       THEN UNCHANGED <<size, bytes>>
       ELSE size' = c.len /\ bytes' = Truncated(bytes, c.len)
    /\ calls' = (calls (-) One(c)) (+) One([c EXCEPT !.step = "map_mut"])
    /\ last' = Ev(c.op, "set_len", "", "", "", 0)
    /\ UNCHANGED <<fd, seals, maps, origin>>

\* memfd.as_file().set_len(size)?;
set_len(c, fault) ==
    /\ Builder(c) /\ c.step = "set_len"
    /\ IF fault \/ TruncateRefused(c.len)
       THEN Aborts(c, "set_len")
       ELSE /\ size' = c.len
            /\ bytes' = Truncated(bytes, c.len)
            /\ calls' = (calls (-) One(c)) (+) One([c EXCEPT !.step = "map_mut"])
            /\ last' = Ev(c.op, "set_len", "", "", "", 0)
            /\ UNCHANGED <<fd, seals, maps, origin>>

\* let mut m = unsafe { mmap::MmapMut::map_mut(memfd.as_file())? };
map_mut(c, fault) ==
    /\ Builder(c) /\ c.step = "map_mut"
    /\ IF fault \/ MapWritableRefused
       THEN Aborts(c, "map_mut")
       ELSE /\ maps' = maps (+) One(Mapping("mut", size))
            /\ calls' = (calls (-) One(c)) (+) One([c EXCEPT !.step = "f"])
            /\ last' = Ev(c.op, "map_mut", "", "", "", size)
            /\ UNCHANGED <<fd, seals, size, bytes, origin>>

\* Mutant: f is handed a copy, its stores never reach the file.
Stored_lost(b, f, len) == b

\* What the file holds once f has stored through a shared mapping of len bytes.
Stored(b, f, len) ==
    [i \in 1..Len(b) |-> IF i \in DOMAIN f /\ i <= len THEN f[i] ELSE b[i]]

\* f(&mut m);  f returns, or it panics: the unwinding drops m and then memfd,
\* and write_once_custom returns nothing.
call_f(c, panic) ==
    /\ Builder(c) /\ c.step = "f"
    /\ IF panic
       THEN /\ Closed
            /\ maps' = EmptyBag
            /\ calls' = calls (-) One(c)
            /\ last' = Ev(c.op, "f", "", "Panic", "f", 0)
       ELSE /\ \E m \in Live("mut") : bytes' = Stored(bytes, c.f, m.len)
            /\ calls' = (calls (-) One(c)) (+) One([c EXCEPT !.step = "drop"])
            /\ last' = Ev(c.op, "f", "", "", "", 0)
            /\ UNCHANGED <<fd, seals, size, maps, origin>>

\* Mutant: drop(m) is left out, m lives to the end of the function.
drop_m_late(c) ==
    /\ Builder(c) /\ c.step = "drop"
    /\ calls' = (calls (-) One(c)) (+) One([c EXCEPT !.step = "add_seals"])
    /\ last' = Ev(c.op, "drop", "", "", "", 0)
    /\ UNCHANGED <<fd, seals, size, bytes, maps, origin>>

\* drop(m);
drop_m(c) ==
    /\ Builder(c) /\ c.step = "drop"
    /\ \E m \in Live("mut") : maps' = maps (-) One(m)
    /\ calls' = (calls (-) One(c)) (+) One([c EXCEPT !.step = "add_seals"])
    /\ last' = Ev(c.op, "drop", "", "", "", 0)
    /\ UNCHANGED <<fd, seals, size, bytes, origin>>

\* Mutant: add_seals is called whatever the set, the empty one too.
add_seals_always(c) ==
    /\ Builder(c) /\ c.step = "add_seals"
    /\ IF AddRefused(c.fseals)
       THEN Aborts(c, "add_seals")
       ELSE /\ seals' = seals \cup c.fseals
            /\ fd' = "open"
            /\ calls' = calls (-) One(c)
            /\ last' = Ev(c.op, "add_seals", "", "Ok", "", 0)
            /\ UNCHANGED <<size, bytes, maps, origin>>

\* if !seals.is_empty() { memfd.add_seals(seals)?; }  Ok(memfd)
add_seals(c) ==
    /\ Builder(c) /\ c.step = "add_seals"
    /\ IF c.fseals = {}
       THEN /\ fd' = "open"
            /\ calls' = calls (-) One(c)
            /\ last' = Ev(c.op, "skip_seals", "", "Ok", "", 0)
            /\ UNCHANGED <<seals, size, bytes, maps, origin>>
       ELSE IF AddRefused(c.fseals)
       THEN Aborts(c, "add_seals")
       ELSE /\ seals' = seals \cup c.fseals
            /\ fd' = "open"
            /\ calls' = calls (-) One(c)
            /\ last' = Ev(c.op, "add_seals", "", "Ok", "", 0)
            /\ UNCHANGED <<size, bytes, maps, origin>>

\* ------------------------------------------------------------ the callers
\* The tests' setup: MemfdOptions::default().allow_sealing(true).create(..)
\* followed by set_len: a zero-filled memfd with no seal.
test_create(sz) ==
    /\ fd = "none" /\ calls = EmptyBag
    /\ fd' = "open"
    /\ seals' = {}
    /\ size' = sz
    /\ bytes' = Zeroes(sz)
    /\ origin' = [NoOrigin EXCEPT !.via = "test", !.size = sz, !.allow = TRUE]
    /\ last' = Ev("test", "create", "", "Ok", "", 0)
    /\ UNCHANGED <<maps, calls>>

\* A caller drops a mapping it was handed (Mmap or MmapRaw goes out of scope).
release(m) ==
    /\ m \in Handed
    /\ maps' = maps (-) One(m)
    /\ last' = Ev("release", m.kind, "", "", "", 0)
    /\ UNCHANGED <<fd, seals, size, bytes, calls, origin>>

\* A holder of a raw mapping stores a byte through it ("It must be writable").
raw_store(m, off, val) ==
    /\ m \in Live("raw")
    /\ off <= m.len /\ off <= size
    /\ bytes[off] # val
    /\ bytes' = [bytes EXCEPT ![off] = val]
    /\ last' = Ev("store", "raw", "", "", "", 0)
    /\ UNCHANGED <<fd, seals, size, maps, calls, origin>>

Next ==
    \/ \E fault \in BOOLEAN : read_memfd(fault)
    \/ \E fault \in BOOLEAN : raw_memfd(fault)
    \/ \E c \in InFlight, fault \in BOOLEAN : verify_seal_query(c, fault)
    \/ \E c \in InFlight : verify_seal_add(c)
    \/ \E c \in InFlight, fault \in BOOLEAN : map_copy_read_only(c, fault)
    \/ \E c \in InFlight, len \in Lens, fault \in BOOLEAN : map_raw(c, len, fault)
    \/ \E sz \in Sizes, fault \in BOOLEAN :
          \E f \in Inits(sz) : write_once(sz, f, fault)
    \/ \E sz \in Sizes, allow \in BOOLEAN, fs \in SUBSET FileSeal, fault \in BOOLEAN :
          \E f \in Inits(sz) : write_once_custom(sz, allow, fs, f, fault)
    \/ \E c \in InFlight, fault \in BOOLEAN : set_len(c, fault)
    \/ \E c \in InFlight, fault \in BOOLEAN : map_mut(c, fault)
    \/ \E c \in InFlight, panic \in BOOLEAN : call_f(c, panic)
    \/ \E c \in InFlight : drop_m(c)
    \/ \E c \in InFlight : add_seals(c)
    \/ \E sz \in Sizes : test_create(sz)
    \/ \E m \in Handed : release(m)
    \/ \E m \in Handed, off \in 1..MaxSize, val \in Bytes : raw_store(m, off, val)

Spec == Init /\ [][Next]_vars

\* ---------------------------------------------------------------- claims
ReadReturned(ret) == last.op = "read_memfd" /\ last.ret = ret
RawReturned(ret) == last.op = "raw_memfd" /\ last.ret = ret
ReadSealed == {SealShrink, SealWrite} \subseteq seals

\* C1: whenever read_memfd returns a mapping the seal set holds SealShrink and
\* SealWrite (and so it does whenever a read_memfd is about to map, and
\* whenever a read-only mapping is live); and a step by which a verify_seal of
\* read_memfd fails makes read_memfd return an error and creates no mapping.
C1_ReadOnlyOnlyWhenSealed ==
    /\ [](/\ ReadReturned("Ok") => ReadSealed
          /\ \A c \in InFlight : c.op = "read_memfd" /\ c.step = "map" => ReadSealed
          /\ Live("ro") # {} => ReadSealed)
    /\ [][last'.op = "read_memfd" /\ last'.vs = "Err"
            => last'.ret = "Err" /\ maps' = maps]_vars

\* C1 witness: read_memfd has just returned a mapping of a memfd that had no
\* seal when it was created.
C1_Witness ==
    /\ ReadReturned("Ok") /\ Live("ro") # {}
    /\ origin.via = "test"

\* C2: while a read-only mapping is live, SealWrite is set and no writable
\* mapping is live, and no step, of whichever holder, creates a writable
\* mapping, removes the seals or changes a byte of the file.
C2_ReadOnlyViewStable ==
    /\ [](Live("ro") # {} => ReadSealed /\ WritableLive = {})
    /\ [][Live("ro") # {}
            => ReadSealed' /\ WritableLive' = {} /\ bytes' = bytes /\ size' = size]_vars

\* C2 witness: a read-only mapping is live and a raw_memfd another holder ran
\* meanwhile has just been refused its mapping.
C2_Witness ==
    /\ Live("ro") # {}
    /\ RawReturned("Err") /\ last.err = "map"
    /\ origin.via = "test"

\* C3: once SealWrite is in the seal set (as it is when write_once has returned
\* the memfd, or when a read_memfd passed its seal checks), no raw mapping is
\* live, and every step by which a raw_memfd returns returns an error and
\* leaves the mappings as they are.
C3_RawRefusedOnceWriteSealed ==
    /\ [](SealWrite \in seals => Live("raw") = {} /\ ~RawReturned("Ok"))
    /\ [](fd = "open" /\ origin.via = "write_once" => SealWrite \in seals)
    /\ [][(SealWrite \in seals) /\ last'.op = "raw_memfd" /\ last'.ret \in {"Ok", "Err"}
            => last'.ret = "Err" /\ maps' = maps]_vars

\* C3 witness: raw_memfd on a memfd returned by write_once has just failed at
\* its map.
C3_Witness ==
    /\ RawReturned("Err") /\ last.err = "map"
    /\ origin.via = "write_once" /\ SealWrite \in seals

\* C4: while a raw mapping is live, SealWrite is absent and no read_memfd has
\* passed its seal checks; every step by which a read_memfd returns returns an
\* error and leaves the mappings as they are; and read_memfd's add_seal of
\* SealWrite is refused, leaving the seal set as it is.
C4_ReadRefusedWhileRawLive ==
    /\ [](Live("raw") # {}
            => /\ SealWrite \notin seals
               /\ Live("ro") = {}
               /\ \A c \in InFlight : ~(c.op = "read_memfd" /\ c.step = "map"))
    /\ [][Live("raw") # {} /\ last'.op = "read_memfd" /\ last'.ret \in {"Ok", "Err"}
            => last'.ret = "Err" /\ maps' = maps]_vars
    /\ [][Live("raw") # {} /\ last'.op = "read_memfd" /\ last'.step = "add_seal"
                           /\ last'.seal = SealWrite
            => last'.err = "add_seal" /\ seals' = seals /\ maps' = maps]_vars

\* C4 witness: with a raw mapping live, read_memfd has just failed at its
\* add_seal of SealWrite.
C4_Witness ==
    /\ Live("raw") # {}
    /\ ReadReturned("Err") /\ last.step = "add_seal" /\ last.seal = SealWrite

\* C5: on a memfd whose seal set is not frozen (created with sealing allowed,
\* SealSeal never added), read_memfd fails only when a primitive fails on its
\* own (seals(), the map) or when its add_seal of SealWrite meets a live
\* writable mapping: with neither, it succeeds; and when it has succeeded
\* SealShrink and SealWrite are in the seal set.
C5_ReadSucceedsOnSealable ==
    /\ ReadReturned("Err") /\ SealSeal \notin seals
          => \/ last.err \in {"seals", "map"}
             \/ last.err = "add_seal" /\ last.seal = SealWrite /\ WritableLive # {}
    /\ ReadReturned("Ok") => ReadSealed

\* C5 witness: the test's scenario: a memfd made with allow_sealing and no seal,
\* on which read_memfd has just succeeded, the only mapping being its own.
C5_Witness ==
    /\ ReadReturned("Ok") /\ origin.via = "test"
    /\ seals = {SealShrink, SealWrite}
    /\ size > 0 /\ bytes = Zeroes(size)
    /\ maps = One(Mapping("ro", size)) /\ calls = EmptyBag

\* What a mapping of len bytes shows of the file.
Shown(len) == [i \in 1..len |-> IF i <= Len(bytes) THEN bytes[i] ELSE 0]
\* What f leaves in a zeroed buffer of n bytes.
Expected(f, n) == [i \in 1..n |-> IF i \in DOMAIN f THEN f[i] ELSE 0]

\* C6: the buffer write_once_custom maps for f is all zeros; and every
\* read-only mapping of a memfd returned by write_once(size, name, f) shows, at
\* each offset, the byte f stored there, and 0 where f stored nothing.
C6_RoundTrip ==
    /\ last.op = "write_once_custom" /\ last.step = "map_mut" /\ last.err = ""
          => Shown(last.len) = Zeroes(origin.size)
    /\ fd = "open" /\ origin.via = "write_once"
          => \A m \in Live("ro") : Shown(m.len) = Expected(origin.f, origin.size)

\* C6 witness: the test's round trip: f stored 100 at one offset and left
\* another alone, and the read-only mapping shows 100 and 0 there.
C6_Witness ==
    /\ fd = "open" /\ origin.via = "write_once" /\ ReadReturned("Ok")
    /\ DOMAIN origin.f = {2} /\ origin.f[2] = 100
    /\ \E m \in Live("ro") : m.len = 2 /\ Shown(m.len) = <<0, 100>>

\* C7: the buffer mapped for f is as long as the size passed to write_once /
\* write_once_custom, so is the read-only mapping read_memfd then returns, and
\* the raw mapping raw_memfd returns is as long as its len argument.
C7_Lengths ==
    /\ last.op = "write_once_custom" /\ last.step = "map_mut" /\ last.err = ""
          => last.len = origin.size /\ Live("mut") = {Mapping("mut", origin.size)}
    /\ ReadReturned("Ok") /\ origin.via \in {"write_once", "write_once_custom"}
          => last.len = origin.size /\ Mapping("ro", origin.size) \in Live("ro")
    /\ RawReturned("Ok")
          => last.len = last.arg /\ Mapping("raw", last.arg) \in Live("raw")

\* C7 witness: raw_memfd has just returned a mapping longer than the file.
C7_Witness ==
    /\ RawReturned("Ok") /\ last.arg > size
    /\ origin.via = "write_once_custom"

\* C8: a memfd write_once has returned carries exactly the four seals, has the
\* size asked for and no writable mapping, and no step changes its seal set,
\* its size or its bytes, or creates a writable mapping of it.
C8_DefaultProfileFrozen ==
    /\ [](fd = "open" /\ origin.via = "write_once"
            => seals = {SealGrow, SealShrink, SealSeal, SealWrite}
               /\ size = origin.size /\ WritableLive = {})
    /\ [][fd = "open" /\ origin.via = "write_once"
            => seals' = seals /\ size' = size /\ bytes' = bytes
               /\ WritableLive' = {}]_vars

\* C8 witness: write_once has just returned the memfd.
C8_Witness ==
    /\ origin.via = "write_once" /\ fd = "open"
    /\ last.op = "write_once_custom" /\ last.step = "add_seals" /\ last.ret = "Ok"

\* C9: a verify_seal whose seals() query finds the seal present returns Ok(())
\* on that query, with no add_seal and the seal set as it was; a seal for
\* which verify_seal returned Ok(()) is in the seal set, and stays there: so a
\* second verify_seal for it finds it present.
C9_VerifySealIdempotent ==
    /\ [][(last'.op \in {"read_memfd", "raw_memfd"} /\ last'.step = "seals"
             /\ last'.err = "" /\ last'.seal \in seals)
            => last'.vs = "Ok" /\ seals' = seals]_vars
    /\ [][last'.vs = "Ok" => last'.seal \in seals']_vars
    /\ [][fd = "open" => seals \subseteq seals']_vars

\* C9 witness: on a memfd created without seals, a verify_seal(SealShrink) has
\* just returned Ok(()) on its query: an earlier verify_seal added the seal.
C9_Witness ==
    /\ last.step = "seals" /\ last.vs = "Ok" /\ last.seal = SealShrink
    /\ origin.via = "test"

\* C10: the last step of a write_once_custom called with no seals calls no
\* add_seals, returns the memfd and leaves the seal set as it is; the memfd so
\* returned has the seal set it was created with (SealSeal alone when made
\* without allow_sealing, where any add_seals would be refused).
C10_EmptySealsSkipped ==
    /\ [][(\E c \in InFlight : /\ c.op = "write_once_custom"
                              /\ c.step = "add_seals" /\ c.fseals = {})
            => last'.step = "skip_seals" /\ last'.ret = "Ok"
               /\ seals' = seals /\ fd' = "open"]_vars
    /\ [](last.step = "skip_seals"
            => fd = "open" /\ seals = IF origin.allow THEN {} ELSE {SealSeal})

\* C10 witness: write_once_custom with no seals has just returned a memfd made
\* without allow_sealing.
C10_Witness ==
    /\ last.step = "skip_seals" /\ last.ret = "Ok"
    /\ ~origin.allow /\ seals = {SealSeal} /\ fd = "open"

\* The builder about to make its last step with Write among its final seals.
SealingWrite ==
    \E c \in InFlight : /\ c.op = "write_once_custom" /\ c.step = "add_seals"
                        /\ SealWrite \in c.fseals

\* C11 as stated: an add_seal(SealWrite) that succeeds finds no writable
\* mapping live, and one that fails finds a writable mapping live.
C11_Original ==
    [][(last'.step = "add_seal" /\ last'.seal = SealWrite)
         => IF last'.err = "" THEN WritableLive = {} ELSE WritableLive # {}]_vars

\* C11, amended: an addition of SealWrite (verify_seal's add_seal, the
\* builder's add_seals) that succeeds finds no writable mapping live and the
\* seal set not frozen, and puts SealWrite in the seal set; one that fails
\* finds a writable mapping live or SealSeal in the seal set, and leaves the
\* seal set and the mappings handed out as they are.
C11_WriteSealBarrier ==
    /\ [][(last'.step = "add_seal" /\ last'.seal = SealWrite)
            => IF last'.err = ""
               THEN /\ WritableLive = {} /\ SealSeal \notin seals
                    /\ SealWrite \in seals' /\ maps' = maps
               ELSE /\ WritableLive # {} \/ SealSeal \in seals
                    /\ seals' = seals /\ maps' = maps]_vars
    /\ [][(SealingWrite /\ last'.step = "add_seals")
            => IF last'.err = ""
               THEN /\ WritableLive = {} /\ SealSeal \notin seals
                    /\ SealWrite \in seals'
               ELSE SealSeal \in seals /\ WritableLive = {}]_vars

\* C11 witness: read_memfd's add_seal(SealWrite) has just been refused on a
\* memfd whose seal set is frozen, with no writable mapping live.
C11_Witness ==
    /\ last.op = "read_memfd" /\ last.step = "add_seal" /\ last.seal = SealWrite
    /\ last.err = "add_seal"
    /\ SealSeal \in seals /\ WritableLive = {}

\* The steps of write_once_custom, in the order of its statements.
BuilderOrder ==
    {<<"set_len", "map_mut">>, <<"map_mut", "f">>, <<"f", "drop">>,
     <<"drop", "add_seals">>}
\* The seal set a memfd has when memfd_options.create returns it.
CreationSeals == IF origin.allow THEN {} ELSE {SealSeal}

\* C12: the builder goes through set_len, map_mut, f, drop(m), add_seals in
\* that order; its mutable mapping is live exactly from map_mut to drop(m),
\* and while it is live the seal set is the one the memfd was created with;
\* when the builder adds its seals, or leaves by whichever path (an error, a
\* panic of f, the return), no mutable mapping is left; and its add_seals is
\* never refused with a writable mapping live.
C12_BuilderLifecycle ==
    /\ [](\A c \in InFlight : Builder(c) =>
            /\ fd = "building"
            /\ c.step \in {"f", "drop"} <=> Live("mut") # {}
            /\ c.step \in {"f", "drop"} => maps = One(Mapping("mut", size))
            /\ c.step # "add_seals" => seals = CreationSeals)
    /\ [](Live("mut") # {} => fd = "building" /\ seals = CreationSeals)
    /\ []((\A c \in InFlight : ~Builder(c)) => Live("mut") = {})
    /\ [][\A c \in InFlight, d \in InFlight' :
             Builder(c) /\ d.op = "write_once_custom"
               => c.step = d.step \/ <<c.step, d.step>> \in BuilderOrder]_vars
    /\ [][(fd = "building" /\ fd' # "none" /\ seals' # seals)
            => /\ last'.step = "add_seals" /\ fd' = "open"
               /\ Live("mut") = {} /\ Live("mut")' = {}]_vars
    /\ [][(last'.op = "write_once_custom" /\ last'.step = "add_seals"
             /\ last'.err # "")
            => WritableLive = {} /\ SealSeal \in seals]_vars

\* C12 witness: write_once_custom has just sealed and returned a memfd with
\* SealWrite among its final seals, its mutable mapping gone.
C12_Witness ==
    /\ last.op = "write_once_custom" /\ last.step = "add_seals" /\ last.ret = "Ok"
    /\ origin.via = "write_once_custom"
    /\ SealWrite \in seals /\ maps = EmptyBag /\ size > 0

\* A step has just created a mapping.
MapCreated == last.step \in {"map", "map_mut"} /\ last.err = ""

\* C13 as stated: every mapping, the builder's mutable one included, was
\* created with SealShrink in the seal set (seen on the mappings of at least
\* one byte).
C13_Original ==
    MapCreated /\ last.len > 0 => SealShrink \in seals

\* C13, amended: every mapping read_memfd or raw_memfd creates is created with
\* SealShrink in the seal set (no call of theirs reaches its map without it,
\* and it is there as long as a mapping handed out is live); the builder's
\* mutable mapping is created before any seal is added, on a memfd nobody
\* else holds.
C13_ShrinkBeforeMapping ==
    /\ MapCreated /\ last.op \in {"read_memfd", "raw_memfd"} => SealShrink \in seals
    /\ \A c \in InFlight : c.op \in {"read_memfd", "raw_memfd"} /\ c.step = "map"
          => SealShrink \in seals
    /\ Handed # {} => SealShrink \in seals
    /\ MapCreated /\ last.op = "write_once_custom"
          => seals = CreationSeals /\ fd = "building" /\ Handed = {}

\* C13 witness: raw_memfd has just returned a mapping of a memfd created with
\* no seal: its verify_seal added SealShrink first.
C13_Witness ==
    /\ RawReturned("Ok") /\ MapCreated
    /\ origin.via = "test" /\ seals = {SealShrink}

\* A step of verify_seal: its seals() query or its add_seal.
VerifyStep(step) ==
    last'.op \in {"read_memfd", "raw_memfd"} /\ last'.step = step
\* The number of calls in flight that are about to make primitive step.
NumAt(b, step) == CopiesIn(step, BagOfAll(LAMBDA c : c.step, b))

\* C14: no step takes a seal out of a memfd's seal set; a verify_seal leaves
\* the seal set as it is (its query, a refused add_seal) or adds exactly its
\* seal (a granted add_seal); it calls add_seal at most
\* once: after the call it returns, Err when refused and Ok(()) when granted;
\* and it changes no mapping, no byte and not the length.
C14_SealsMonotonic ==
    /\ [][fd' # "none" => seals \subseteq seals']_vars
    /\ [][VerifyStep("seals") => seals' = seals]_vars
    /\ [][VerifyStep("add_seal")
            => /\ IF last'.err = ""
                  THEN seals' = seals \cup {last'.seal} /\ last'.vs = "Ok"
                  ELSE seals' = seals /\ last'.vs = "Err" /\ last'.ret = "Err"
               /\ NumAt(calls', "add_seal") = NumAt(calls, "add_seal") - 1]_vars
    /\ [][(VerifyStep("seals") \/ VerifyStep("add_seal"))
            => maps' = maps /\ bytes' = bytes /\ size' = size /\ fd' = fd]_vars

\* C14 witness: a verify_seal has just added SealWrite to a seal set holding
\* SealGrow and SealShrink, which are still there.
C14_Witness ==
    /\ last.step = "add_seal" /\ last.seal = SealWrite /\ last.vs = "Ok"
    /\ seals = {SealGrow, SealShrink, SealWrite}

\* C15: read_memfd verifies SealShrink, then SealWrite: a read_memfd comes to
\* verify SealWrite only by a step on which its verify_seal(SealShrink)
\* returned Ok(()), so with SealShrink in the seal set; and a step on which
\* its verify_seal(SealWrite) fails makes read_memfd return an error, creates
\* no mapping and leaves the seal set as it is, with the SealShrink the call
\* itself had added still in it.
C15_ShrinkThenWrite ==
    /\ [](\A c \in InFlight :
            c.op = "read_memfd" /\ (c.seal = SealWrite \/ c.step = "map")
               => SealShrink \in seals /\ c.added \subseteq {SealShrink})
    /\ [](last.op = "read_memfd" /\ last.seal = SealWrite
            => SealShrink \in seals /\ last.added \subseteq seals)
    /\ [][\A d \in InFlight' :
             (d.op = "read_memfd" /\ d.seal = SealWrite /\ d.step = "seals"
                /\ CopiesIn(d, calls') > CopiesIn(d, calls))
               => /\ last'.op = "read_memfd" /\ last'.seal = SealShrink
                  /\ last'.vs = "Ok"]_vars
    /\ [][(last'.op = "read_memfd" /\ last'.seal = SealWrite /\ last'.vs = "Err")
            => /\ last'.ret = "Err" /\ maps' = maps /\ seals' = seals
               /\ last'.added \subseteq seals']_vars

\* C15 witness: on a memfd created with no seal, a read_memfd added SealShrink,
\* another holder's raw_memfd then got its mapping, and the read_memfd has
\* just failed at add_seal(SealWrite): SealShrink stays behind.
C15_Witness ==
    /\ ReadReturned("Err") /\ last.step = "add_seal" /\ last.seal = SealWrite
    /\ last.added = {SealShrink}
    /\ origin.via = "test" /\ seals = {SealShrink} /\ Live("raw") # {}
    /\ Live("ro") = {}

\* C16: raw_memfd verifies SealShrink and nothing else: no step of it queries
\* or adds SealWrite, and it adds no seal but SealShrink.  On a memfd sealed
\* SealShrink and SealWrite its verify_seal returns Ok(()) (unless seals()
\* itself fails), it is refused at map_raw, the error it returns is the map's,
\* never add_seal's, and the seal set and the mappings stay as they are.  A
\* raw_memfd that returns a mapping leaves SealWrite absent.
C16_RawChecksOnlyShrink ==
    /\ [](/\ \A c \in InFlight : c.op = "raw_memfd" => c.seal \in {SealShrink, ""}
          /\ last.op = "raw_memfd" => last.seal \in {SealShrink, ""}
          /\ RawReturned("Ok") => SealWrite \notin seals /\ SealShrink \in seals)
    /\ [][last'.op = "raw_memfd" => seals' \ seals \subseteq {SealShrink}]_vars
    /\ [][({SealShrink, SealWrite} \subseteq seals /\ last'.op = "raw_memfd")
            => /\ seals' = seals /\ maps' = maps
               /\ last'.err \in {"", "seals", "map"}
               /\ last'.step \in {"seals", "add_seal"} /\ last'.err = ""
                     => last'.vs = "Ok"
               /\ last'.step = "map" => last'.ret = "Err" /\ last'.err = "map"
               /\ last'.ret # "Ok"]_vars

\* C16 witness: on a memfd write_once_custom sealed SealShrink and SealWrite
\* (seal set not frozen), raw_memfd has just failed at its map.
C16_Witness ==
    /\ RawReturned("Err") /\ last.step = "map" /\ last.err = "map"
    /\ origin.via = "write_once_custom" /\ seals = {SealShrink, SealWrite}

\* A read_memfd or raw_memfd (op) has got, or is about to get, its mapping.
Mapped(op, kind) ==
    \/ Live(kind) # {}
    \/ last.op = op /\ last.ret = "Ok"
    \/ \E c \in InFlight : c.op = op /\ c.step = "map"

\* C17: with SealSeal in the seal set, no step changes the seal set; a
\* verify_seal whose query finds its seal present returns Ok(()), one that
\* finds it absent goes on to add_seal, which is refused: verify_seal returns
\* add_seal's error and the seal set stays as it is.  So a memfd frozen
\* without SealShrink gets no mapping from read_memfd or raw_memfd, and one
\* frozen without SealWrite none from read_memfd.  Without SealSeal, on a
\* memfd the builder has returned, verify_seal's add_seal is granted unless it
\* is add_seal(SealWrite) with a writable mapping live.
C17_FrozenSealSet ==
    /\ [][fd = "open" /\ SealSeal \in seals => seals' = seals]_vars
    /\ [][(SealSeal \in seals /\ VerifyStep("seals") /\ last'.err = "")
            => last'.vs = (IF last'.seal \in seals THEN "Ok" ELSE "")]_vars
    /\ [][(SealSeal \in seals /\ VerifyStep("add_seal"))
            => /\ last'.seal \notin seals
               /\ last'.vs = "Err" /\ last'.ret = "Err" /\ last'.err = "add_seal"
               /\ seals' = seals /\ maps' = maps]_vars
    /\ [](fd = "open" /\ SealSeal \in seals /\ SealShrink \notin seals
            => ~Mapped("read_memfd", "ro") /\ ~Mapped("raw_memfd", "raw"))
    /\ [](fd = "open" /\ SealSeal \in seals /\ SealWrite \notin seals
            => ~Mapped("read_memfd", "ro"))
    /\ [][(SealSeal \notin seals /\ VerifyStep("add_seal")
             /\ ~(last'.seal = SealWrite /\ WritableLive # {}))
            => last'.vs = "Ok" /\ seals' = seals \cup {last'.seal}]_vars

\* C17 witness: write_once_custom froze the seal set with SealGrow and
\* SealSeal only, and a read_memfd on it has just failed at
\* add_seal(SealShrink), leaving the seal set as it was.
C17_Witness ==
    /\ ReadReturned("Err") /\ last.step = "add_seal" /\ last.seal = SealShrink
    /\ last.err = "add_seal"
    /\ origin.via = "write_once_custom" /\ origin.allow
    /\ seals = {SealGrow, SealSeal} /\ maps = EmptyBag

\* C18: while write_once_custom runs, nobody else holds the memfd: no
\* read_memfd or raw_memfd is in flight and no mapping has been handed out;
\* from map_mut to drop(m), so before, while and after f runs, the builder's
\* MmapMut is the only mapping; and the memfd gets to its callers only by the
\* builder's last step, with f done, the mapping dropped and the seals added.
C18_ExclusiveInit ==
    /\ [](\A c \in InFlight : Builder(c) =>
            /\ fd = "building" /\ calls = One(c) /\ Handed = {}
            /\ c.step \in {"f", "drop"} => maps = One(Mapping("mut", size)))
    /\ [](fd = "building" => \E c \in InFlight : Builder(c))
    /\ [][last'.step = "f"
            => /\ maps = One(Mapping("mut", size)) /\ BagCardinality(calls) = 1
               /\ maps' = maps \/ last'.ret = "Panic"]_vars
    /\ [][(fd = "building" /\ fd' = "open")
            => /\ last'.op = "write_once_custom" /\ last'.ret = "Ok"
               /\ last'.step \in {"add_seals", "skip_seals"}
               /\ \E c \in InFlight : c.step = "add_seals" /\ c.fseals \subseteq seals'
               /\ maps = EmptyBag /\ maps' = EmptyBag /\ calls' = EmptyBag]_vars
    /\ [][last'.op \in {"read_memfd", "raw_memfd"} => fd = "open" /\ fd' = "open"]_vars

\* C18 witness: f has just run and stored into the file through the builder's
\* mapping, which is the only mapping there is.
C18_Witness ==
    /\ last.op = "write_once_custom" /\ last.step = "f" /\ last.ret = ""
    /\ fd = "building" /\ size > 0 /\ bytes # Zeroes(size)
    /\ maps = One(Mapping("mut", size)) /\ BagCardinality(calls) = 1

\* A step of write_once_custom (step) has just failed.
BuilderFailed(step) ==
    last'.op = "write_once_custom" /\ last'.step = step /\ last'.err # ""

\* C19: a failure of create, set_len or map_mut makes write_once_custom return
\* an error on that very step: f has not run (the builder was not past
\* map_mut and the file held zeroes only), no seal has been added, and
\* nothing is left, neither memfd nor mapping nor call.  A failure of add_seals
\* returns an error too and drops the memfd, after f has run and stored into
\* the file.  The memfd is returned only by the last step, every step before
\* it having succeeded: it has the size asked for, holds what f stored and
\* carries the seals asked for.
C19_AbortOnFirstFailure ==
    /\ [][(BuilderFailed("create") \/ BuilderFailed("set_len") \/ BuilderFailed("map_mut"))
            => /\ last'.ret = "Err" /\ last'.err = last'.step
               /\ \A c \in InFlight : Builder(c) => c.step = last'.step
               /\ IF last'.step = "create"
                  THEN fd = "none"
                  ELSE fd = "building" /\ bytes = Zeroes(size) /\ seals = CreationSeals
               /\ fd' = "none" /\ seals' = {} /\ maps' = EmptyBag
               /\ calls' = EmptyBag]_vars
    /\ [][BuilderFailed("add_seals")
            => /\ last'.ret = "Err" /\ fd' = "none" /\ maps' = EmptyBag
               /\ calls' = EmptyBag
               /\ \E c \in InFlight : /\ Builder(c) /\ c.step = "add_seals"
                                      /\ bytes = Expected(c.f, c.len)]_vars
    /\ [][last'.step = "f"
            => \E c \in InFlight : Builder(c) /\ c.step = "f"
                                    /\ bytes = Zeroes(c.len)]_vars
    /\ [][(last'.op = "write_once_custom" /\ last'.ret \in {"Err", "Panic"})
            => fd' = "none"]_vars
    /\ [][(fd = "building" /\ fd' = "open")
            => /\ last'.ret = "Ok" /\ last'.err = ""
               /\ \E c \in InFlight : /\ Builder(c) /\ c.step = "add_seals"
                                      /\ size' = c.len
                                      /\ bytes' = Expected(c.f, c.len)
                                      /\ seals' = CreationSeals \cup c.fseals]_vars
    /\ [](fd = "open" /\ origin.via \in {"write_once", "write_once_custom"}
            => size = origin.size)

\* C19 witness: add_seals has just been refused (the memfd was made without
\* allow_sealing): write_once_custom returned an error and the memfd is gone.
C19_Witness ==
    /\ last.op = "write_once_custom" /\ last.step = "add_seals"
    /\ last.ret = "Err" /\ last.err = "add_seals"
    /\ fd = "none" /\ maps = EmptyBag /\ calls = EmptyBag

====
